---- MODULE Spec2Model ----
(***************************************************************************)
(* purifly: the Option monad (monad.py), its unwrap failure (error.py),    *)
(* the Mapper call contract (monad.py) and the Sequencer composition       *)
(* exercised by test.py.                                                   *)
(*                                                                         *)
(* A Python call is modelled by its outcome: a record that says whether    *)
(* the call returned or raised, what it returned or raised, the receiver   *)
(* object after the call, and the user-supplied callables it invoked, in   *)
(* order.                                                                  *)
(***************************************************************************)
EXTENDS Integers, Sequences, FiniteSets, TLC

\* ------------------------------------------------------------ bounds
MaxVal == 5
MaxChain == 2
MaxPipes == 3
MaxSteps == 3

\* ------------------------------------------------------------ user inputs
\* Payloads of type T.
Values == 0..MaxVal
\* Callables T -> U handed to map / map_or / map_or_else / inspect.
Funcs == {"identity", "add_one", "double"}
\* Predicates T -> bool handed to filter / is_some_and.
Preds == {"is_even", "gt_one"}
\* 0-ary producers of a T handed to unwrap_or_else / map_or_else.
Thunks == {"two_k"}
\* Callables T -> Option[U] handed to and_then.
OptFuncs == {"some_double", "to_none"}
\* 0-ary producers of an Option handed to or_else.
OptThunks == {"some_zero", "none"}
\* Defaults handed to unwrap_or / map_or.
Defaults == {0, 42}
\* Messages handed to expect.
Messages == {"", "slice should not be empty", "OptionError: x"}

ApplyFunc(f, x) ==
    CASE f = "identity" -> x
      [] f = "add_one"  -> x + 1
      [] f = "double"   -> 2 * x

ApplyPred(p, x) ==
    CASE p = "is_even" -> x % 2 = 0
      [] p = "gt_one"  -> x > 1

ApplyThunk(t) ==
    CASE t = "two_k" -> 20

\* ------------------------------------------------------------ Python values
IntV(n) == [int |-> n]
BoolV(b) == [bool |-> b]
OptV(opt) == [opt |-> opt]

\* One invocation of a user-supplied callable, with its positional arguments.
Invoked(f, args) == [fn |-> f, args |-> args]

Return(self, r, calls) == [kind |-> "return", self |-> self, ret |-> r, calls |-> calls]
Raise(self, e, calls) == [kind |-> "raise", self |-> self, exc |-> e, calls |-> calls]

\* ------------------------------------------------------------ error.py
\* UnwrapException.__init__(self, msg): exactly one positional argument.
UnwrapException(args) ==
    IF Len(args) = 1
    THEN [type |-> "UnwrapException", msg |-> args[1]]
    ELSE [type |-> "TypeError",
          msg |-> "UnwrapException.__init__() takes 2 positional arguments"]

\* UnwrapException.__str__
UnwrapExceptionStr(e) == "OptionError: " \o e.msg

\* str(e) of a raised exception.
Str(e) == IF e.type = "UnwrapException" THEN UnwrapExceptionStr(e) ELSE e.msg

\* ------------------------------------------------------------ monad.py: construction
OpSome(value) == [cls |-> "OpSome", value |-> value]
OpNone == [cls |-> "OpNone"]

OptionSome(value) == OpSome(value)
OptionNone == OpNone

ApplyOptFunc(f, x) ==
    CASE f = "some_double" -> OptionSome(2 * x)
      [] f = "to_none"     -> OptionNone

ApplyOptThunk(t) ==
    CASE t = "some_zero" -> OptionSome(0)
      [] t = "none"      -> OptionNone

\* The attributes the classes Option, OpSome and OpNone define.
OptionAttrs ==
    {"from_nullable", "some", "none", "is_some", "is_none", "is_some_and",
     "expect", "to_array", "unwrap", "unwrap_or", "unwrap_or_else", "inspect",
     "map", "map_or", "map_or_else", "filter", "and_then", "or_else", "to_iter"}

\* self.clone(): an attribute lookup on the instance, then a call.
SelfClone(self, calls) ==
    IF "clone" \in OptionAttrs
    THEN Return(self, OptV(self), calls)
    ELSE Raise(self, [type |-> "AttributeError",
                      msg |-> "'OpSome' object has no attribute 'clone'"], calls)

\* ------------------------------------------------------------ monad.py: OpSome
OpSomeEq(self, other) ==
    IF other.cls = "OpSome" THEN self.value = other.value ELSE FALSE

OpSomeIsSome(self) == TRUE
OpSomeIsNone(self) == FALSE

OpSomeIsSomeAnd(self, func) ==
    Return(self, BoolV(ApplyPred(func, self.value)), <<Invoked(func, <<self.value>>)>>)

OpSomeExpect(self, msg) == Return(self, IntV(self.value), <<>>)

OpSomeUnwrap(self) == Return(self, IntV(self.value), <<>>)

OpSomeUnwrapOr(self, default) == Return(self, IntV(self.value), <<>>)

\* A variant that evaluates the default producer eagerly.
OpSomeUnwrapOrElse_Eager(self, func) ==
    Return(self, IntV(self.value), <<Invoked(func, <<>>)>>)
OpSomeUnwrapOrElse(self, func) == Return(self, IntV(self.value), <<>>)

OpSomeInspect(self, func) ==
    Return(self, OptV(self), <<Invoked(func, <<self.value>>)>>)

\* A variant that calls func and wraps the old payload instead of its result.
OpSomeMap_KeepsPayload(self, func) ==
    Return(self, OptV(OptionSome(self.value)), <<Invoked(func, <<self.value>>)>>)
OpSomeMap(self, func) ==
    Return(self, OptV(OptionSome(ApplyFunc(func, self.value))),
           <<Invoked(func, <<self.value>>)>>)

OpSomeMapOr(self, default, func) ==
    Return(self, IntV(ApplyFunc(func, self.value)), <<Invoked(func, <<self.value>>)>>)

OpSomeMapOrElse(self, default, func) ==
    Return(self, IntV(ApplyFunc(func, self.value)), <<Invoked(func, <<self.value>>)>>)

OpSomeFilter(self, func) ==
    IF ApplyPred(func, self.value)
    THEN SelfClone(self, <<Invoked(func, <<self.value>>)>>)
    ELSE Return(self, OptV(OpNone), <<Invoked(func, <<self.value>>)>>)

OpSomeAndThen(self, func) ==
    Return(self, OptV(ApplyOptFunc(func, self.value)), <<Invoked(func, <<self.value>>)>>)

OpSomeOrElse(self, func) == SelfClone(self, <<>>)

\* ------------------------------------------------------------ monad.py: OpNone
OpNoneEq(self, other) == other.cls = "OpNone"

OpNoneIsSome(self) == FALSE
\* A variant that reports a value as present.
OpNoneIsNone_False(self) == FALSE
OpNoneIsNone(self) == TRUE

OpNoneIsSomeAnd(self, func) == Return(self, BoolV(FALSE), <<>>)

OpNoneExpect(self, msg) == Raise(self, UnwrapException(<<msg>>), <<>>)

\* (the message's backquotes are written as apostrophes here)
OpNoneUnwrap(self) ==
    Raise(self,
          UnwrapException(<<"Option", "call 'Option.unwrap' on an 'Option<None>' object">>),
          <<>>)

OpNoneUnwrapOr(self, default) == Return(self, IntV(default), <<>>)

OpNoneUnwrapOrElse(self, func) ==
    Return(self, IntV(ApplyThunk(func)), <<Invoked(func, <<>>)>>)

OpNoneInspect(self, func) == Return(self, OptV(self), <<>>)

\* A variant that calls func although there is no payload.
OpNoneMap_CallsFunc(self, func) ==
    Return(self, OptV(OptionNone), <<Invoked(func, <<>>)>>)
OpNoneMap(self, func) == Return(self, OptV(OptionNone), <<>>)

OpNoneMapOr(self, default, func) == Return(self, IntV(default), <<>>)

OpNoneMapOrElse(self, default, func) ==
    Return(self, IntV(ApplyThunk(default)), <<Invoked(default, <<>>)>>)

OpNoneFilter(self, func) == Return(self, OptV(self), <<>>)

OpNoneAndThen(self, func) == Return(self, OptV(OptionNone), <<>>)

OpNoneOrElse(self, func) ==
    Return(self, OptV(ApplyOptThunk(func)), <<Invoked(func, <<>>)>>)

\* ------------------------------------------------------------ monad.py: Option (dispatch)
OptionEq(a, b) == IF a.cls = "OpSome" THEN OpSomeEq(a, b) ELSE OpNoneEq(a, b)
IsSome(self) == IF self.cls = "OpSome" THEN OpSomeIsSome(self) ELSE OpNoneIsSome(self)
IsNone(self) == IF self.cls = "OpSome" THEN OpSomeIsNone(self) ELSE OpNoneIsNone(self)
IsSomeAnd(self, func) ==
    IF self.cls = "OpSome" THEN OpSomeIsSomeAnd(self, func) ELSE OpNoneIsSomeAnd(self, func)
Expect(self, msg) ==
    IF self.cls = "OpSome" THEN OpSomeExpect(self, msg) ELSE OpNoneExpect(self, msg)
Unwrap(self) == IF self.cls = "OpSome" THEN OpSomeUnwrap(self) ELSE OpNoneUnwrap(self)
UnwrapOr(self, default) ==
    IF self.cls = "OpSome" THEN OpSomeUnwrapOr(self, default) ELSE OpNoneUnwrapOr(self, default)
UnwrapOrElse(self, func) ==
    IF self.cls = "OpSome" THEN OpSomeUnwrapOrElse(self, func) ELSE OpNoneUnwrapOrElse(self, func)
Inspect(self, func) ==
    IF self.cls = "OpSome" THEN OpSomeInspect(self, func) ELSE OpNoneInspect(self, func)
Map(self, func) == IF self.cls = "OpSome" THEN OpSomeMap(self, func) ELSE OpNoneMap(self, func)
MapOr(self, default, func) ==
    IF self.cls = "OpSome" THEN OpSomeMapOr(self, default, func)
    ELSE OpNoneMapOr(self, default, func)
MapOrElse(self, default, func) ==
    IF self.cls = "OpSome" THEN OpSomeMapOrElse(self, default, func)
    ELSE OpNoneMapOrElse(self, default, func)
Filter(self, func) ==
    IF self.cls = "OpSome" THEN OpSomeFilter(self, func) ELSE OpNoneFilter(self, func)
AndThen(self, func) ==
    IF self.cls = "OpSome" THEN OpSomeAndThen(self, func) ELSE OpNoneAndThen(self, func)
OrElse(self, func) ==
    IF self.cls = "OpSome" THEN OpSomeOrElse(self, func) ELSE OpNoneOrElse(self, func)

\* ------------------------------------------------------------ state
VARIABLES
    o,        \* the Option object under test (the receiver of the calls)
    created,  \* o as its constructor returned it
    root,     \* the Option the method chain started from
    hist,     \* the calls of the chain that led from root to o
    last,     \* the most recent call on o and its outcome
    pipes,    \* Sequencer: its pipe list
    input,    \* Mapper.__call__ / Sequencer.map: the Option passed in
    data,     \* Sequencer.map: the local variable data
    idx,      \* Sequencer.map: position of the loop in the pipe list
    trace,    \* the pipes whose map was invoked, in order, as <<position, pipe, argument>>
    status,   \* "idle", "running", "returned", "raised"
    result,   \* the outcome of the pipe call when status is "returned" or "raised"
    steps,      \* Pipeline.steps
    num_proc,   \* Pipeline.num_proc (0 stands for None)
    order,      \* the steps in the order they were given: constructor list, then add_step calls
    ctorLen,    \* how many steps the constructor was given
    runInput,   \* Pipeline.run: the argument data
    runData,    \* Pipeline.run: the local variable data
    runIdx,     \* Pipeline.run: how many steps the loop has taken from the list
    applied,    \* Pipeline.run: the data.filter / data.map calls made, in order
    runStatus,  \* "idle", "running", "returned", "raised"
    runResult   \* the value returned or the exception raised by run

optionVars == <<o, created, root, hist, last>>
pipeVars == <<pipes, input, data, idx, trace, status, result>>
runVars ==
    <<steps, num_proc, order, ctorLen, runInput, runData, runIdx, applied, runStatus, runResult>>
vars ==
    <<o, created, root, hist, last, pipes, input, data, idx, trace, status, result,
      steps, num_proc, order, ctorLen, runInput, runData, runIdx, applied, runStatus, runResult>>

NoCall == [op |-> "none"]
Called(op, recv, args, out) == [op |-> op, recv |-> recv, args |-> args, out |-> out]

Options == {OptionNone} \cup {OptionSome(v) : v \in Values}

RunIdle ==
    /\ steps = <<>>
    /\ num_proc = 0
    /\ order = <<>>
    /\ ctorLen = 0
    /\ runInput = <<>>
    /\ runData = <<>>
    /\ runIdx = 0
    /\ applied = <<>>
    /\ runStatus = "idle"
    /\ runResult = [op |-> "none"]

PipeIdle ==
    /\ pipes = <<>>
    /\ input = OptionNone
    /\ data = OptionNone
    /\ idx = 0
    /\ trace = <<>>
    /\ status = "idle"
    /\ result = NoCall

Init ==
    /\ o \in Options
    /\ created = o
    /\ root = o
    /\ hist = <<>>
    /\ last = NoCall
    /\ PipeIdle
    /\ RunIdle

\* A call on o: the receiver object becomes what the method left of it.
Perform(op, args, out) ==
    /\ last' = Called(op, o, args, out)
    /\ o' = out.self
    /\ UNCHANGED <<created, root, hist, pipeVars, runVars>>

CallIsSomeAnd == \E f \in Preds : Perform("is_some_and", [func |-> f], IsSomeAnd(o, f))
CallExpect == \E m \in Messages : Perform("expect", [msg |-> m], Expect(o, m))
CallUnwrap == Perform("unwrap", [none |-> TRUE], Unwrap(o))
CallUnwrapOr == \E d \in Defaults : Perform("unwrap_or", [default |-> d], UnwrapOr(o, d))
CallUnwrapOrElse ==
    \E t \in Thunks : Perform("unwrap_or_else", [func |-> t], UnwrapOrElse(o, t))
CallInspect == \E f \in Funcs : Perform("inspect", [func |-> f], Inspect(o, f))
CallMap == \E f \in Funcs : Perform("map", [func |-> f], Map(o, f))
CallMapOr ==
    \E d \in Defaults, f \in Funcs :
        Perform("map_or", [default |-> d, func |-> f], MapOr(o, d, f))
CallMapOrElse ==
    \E t \in Thunks, f \in Funcs :
        Perform("map_or_else", [default |-> t, func |-> f], MapOrElse(o, t, f))
CallFilter == \E f \in Preds : Perform("filter", [func |-> f], Filter(o, f))
CallAndThen == \E f \in OptFuncs : Perform("and_then", [func |-> f], AndThen(o, f))
CallOrElse == \E t \in OptThunks : Perform("or_else", [func |-> t], OrElse(o, t))

\* The next call of a method chain, x.m1(..).m2(..): the Option the last call
\* returned becomes the receiver.
Chain ==
    /\ last.op # "none"
    /\ last.out.kind = "return"
    /\ "opt" \in DOMAIN last.out.ret
    /\ Len(hist) < MaxChain
    /\ o' = last.out.ret.opt
    /\ created' = last.out.ret.opt
    /\ hist' = Append(hist, [op |-> last.op, args |-> last.args])
    /\ last' = NoCall
    /\ UNCHANGED <<root, pipeVars, runVars>>

Next ==
    \/ CallIsSomeAnd
    \/ CallExpect
    \/ CallUnwrap
    \/ CallUnwrapOr
    \/ CallUnwrapOrElse
    \/ CallInspect
    \/ CallMap
    \/ CallMapOr
    \/ CallMapOrElse
    \/ CallFilter
    \/ CallAndThen
    \/ CallOrElse
    \/ Chain

Spec == Init /\ [][Next]_vars

\* ------------------------------------------------------------ Mapper variants
\* The concrete variants: AddOnePipe is the one of test.py; the others are the
\* identity pipe, a pipe that drops every value and a pipe that raises when its
\* map is called.
PipeKinds == {"AddOnePipe", "IdentityPipe", "DropPipe", "RaisePipe"}

\* The Option a pipe's map hands back from an Option method's outcome.
PipeResult(pipe, out) ==
    IF out.kind = "return"
    THEN Return(pipe, OptV(out.ret.opt), out.calls)
    ELSE Raise(pipe, out.exc, out.calls)

\* A variant whose map returns its input.
AddOnePipeMap_Identity(arg) == Return("AddOnePipe", OptV(arg), <<>>)
\* AddOnePipe.map: return data.map(lambda x: x+1)
AddOnePipeMap(arg) == PipeResult("AddOnePipe", Map(arg, "add_one"))

IdentityPipeMap(arg) == Return("IdentityPipe", OptV(arg), <<>>)

DropPipeMap(arg) == PipeResult("DropPipe", AndThen(arg, "to_none"))

RaisePipeMap(arg) ==
    Raise("RaisePipe", [type |-> "RuntimeError", msg |-> "must not be called"], <<>>)

\* self.map(arg), dispatched on the variant.
PipeMap(pipe, arg) ==
    CASE pipe = "AddOnePipe"   -> AddOnePipeMap(arg)
      [] pipe = "IdentityPipe" -> IdentityPipeMap(arg)
      [] pipe = "DropPipe"     -> DropPipeMap(arg)
      [] pipe = "RaisePipe"    -> RaisePipeMap(arg)

\* One invocation of a variant's map: pos is 0 for the map that __call__ invokes
\* and i for the i-th pipe of the Sequencer.
MapCall(pos, pipe, arg) == [pos |-> pos, pipe |-> pipe, arg |-> arg]
MapDone(pos, pipe, arg, out) == [pos |-> pos, pipe |-> pipe, arg |-> arg, out |-> out]

RECURSIVE SeqsUpTo(_)
SeqsUpTo(n) ==
    IF n = 0 THEN {<<>>}
    ELSE LET shorter == SeqsUpTo(n - 1)
         IN shorter \cup {Append(q, k) : q \in shorter, k \in PipeKinds}

InitPipe ==
    /\ o = OptionNone
    /\ created = o
    /\ root = o
    /\ hist = <<>>
    /\ last = NoCall
    /\ pipes \in SeqsUpTo(MaxPipes)
    /\ input = OptionNone
    /\ data = OptionNone
    /\ idx = 0
    /\ trace = <<>>
    /\ status = "idle"
    /\ result = NoCall
    /\ RunIdle

\* Mapper.__call__ on a leaf variant: return self.map(data).
CallPipe ==
    \E pipe \in PipeKinds, d \in Options :
        /\ status = "idle"
        /\ input' = d
        /\ trace' = <<MapCall(0, pipe, d)>>
        /\ result' = PipeMap(pipe, d)
        /\ status' = IF result'.kind = "return" THEN "returned" ELSE "raised"
        /\ UNCHANGED <<runVars, optionVars, pipes, data, idx>>

\* Mapper.__call__ on the Sequencer: self.map(data) is entered.
CallSequencer ==
    \E d \in Options :
        /\ status = "idle"
        /\ input' = d
        /\ data' = d
        /\ idx' = 0
        /\ trace' = <<MapCall(0, "Sequencer", d)>>
        /\ status' = "running"
        /\ UNCHANGED <<runVars, optionVars, pipes, result>>

\* Sequencer.map, one iteration: data = pipe.map(data); a None result ends the
\* loop and is returned; a failure of the pipe propagates.
SeqStep ==
    /\ status = "running"
    /\ idx < Len(pipes)
    /\ LET pipe == pipes[idx + 1]
           out == PipeMap(pipe, data)
       IN /\ trace' = Append(trace, MapDone(idx + 1, pipe, data, out))
          /\ idx' = idx + 1
          /\ IF out.kind = "raise"
             THEN /\ status' = "raised"
                  /\ result' = Raise("Sequencer", out.exc, <<>>)
                  /\ data' = data
             ELSE /\ data' = out.ret.opt
                  /\ IF IsNone(out.ret.opt)
                     THEN /\ status' = "returned"
                          /\ result' = Return("Sequencer", OptV(OptionNone), <<>>)
                     ELSE UNCHANGED <<status, result>>
    /\ UNCHANGED <<runVars, optionVars, pipes, input>>

\* Sequencer.map: the list is exhausted, data is returned.
SeqReturn ==
    /\ status = "running"
    /\ idx = Len(pipes)
    /\ status' = "returned"
    /\ result' = Return("Sequencer", OptV(data), <<>>)
    /\ UNCHANGED <<runVars, optionVars, pipes, input, data, idx, trace>>

NextPipe ==
    \/ CallPipe
    \/ CallSequencer
    \/ SeqStep
    \/ SeqReturn

SpecPipe == InitPipe /\ [][NextPipe]_vars

\* ------------------------------------------------------------ core.py: Pipeline
\* The ProcessItem subclasses.
StepClasses == {"ProcessFilter", "ProcessMap", "ProcessReduce", "ProcessConversion"}

\* The step objects handed to a Pipeline: an instance of a class, with its process.
StepKinds ==
    {[cls |-> "ProcessFilter", fn |-> "is_even"],
     [cls |-> "ProcessFilter", fn |-> "gt_one"],
     [cls |-> "ProcessMap", fn |-> "add_one"],
     [cls |-> "ProcessMap", fn |-> "double"],
     [cls |-> "ProcessReduce", fn |-> "sum"],
     [cls |-> "ProcessConversion", fn |-> "str"]}

IsInstance(step, cls) == step.cls = cls

\* The datasets handed to run: sequences of samples.
Datasets == {<<>>, <<1, 2>>, <<0, 3, 4>>}

\* Pipeline.num_proc: None (0) or a number of processes.
NumProcs == {0, 2}

\* data.filter(step, num_proc=..): the samples for which step(sample) is true.
DataFilter(d, step) ==
    LET Keep(x) == ApplyPred(step.fn, x)
    IN SelectSeq(d, Keep)

\* data.map(step, num_proc=..): step(sample) for every sample.
DataMap(d, step) == [i \in 1..Len(d) |-> ApplyFunc(step.fn, d[i])]

\* One data.filter / data.map call made by run.
Applied(pos, method, step, arg, np, out) ==
    [pos |-> pos, method |-> method, step |-> step, arg |-> arg, num_proc |-> np, out |-> out]

ValueError ==
    [type |-> "ValueError", msg |-> "Step must be either a ProcessFilter or ProcessMap."]

RECURSIVE StepSeqsUpTo(_)
StepSeqsUpTo(n) ==
    IF n = 0 THEN {<<>>}
    ELSE LET shorter == StepSeqsUpTo(n - 1)
         IN shorter \cup {Append(q, k) : q \in shorter, k \in StepKinds}

\* Pipeline.__init__(steps, num_proc)
InitPipeline ==
    /\ o = OptionNone
    /\ created = o
    /\ root = o
    /\ hist = <<>>
    /\ last = NoCall
    /\ PipeIdle
    /\ steps \in StepSeqsUpTo(MaxSteps)
    /\ num_proc \in NumProcs
    /\ order = steps
    /\ ctorLen = Len(steps)
    /\ runInput = <<>>
    /\ runData = <<>>
    /\ runIdx = 0
    /\ applied = <<>>
    /\ runStatus = "idle"
    /\ runResult = NoCall

\* A variant that puts the new step in front of the list.
AddStep_Prepend ==
    \E step \in StepKinds :
        /\ runStatus = "idle"
        /\ Len(steps) < MaxSteps
        /\ steps' = <<step>> \o steps
        /\ order' = Append(order, step)
        /\ UNCHANGED <<optionVars, pipeVars, num_proc, ctorLen, runInput, runData, runIdx,
                       applied, runStatus, runResult>>
\* Pipeline.add_step: self.steps.append(step)
AddStep ==
    \E step \in StepKinds :
        /\ runStatus = "idle"
        /\ Len(steps) < MaxSteps
        /\ steps' = Append(steps, step)
        /\ order' = Append(order, step)
        /\ UNCHANGED <<optionVars, pipeVars, num_proc, ctorLen, runInput, runData, runIdx,
                       applied, runStatus, runResult>>

\* Pipeline.run is entered with data.
RunStart ==
    \E d \in Datasets :
        /\ runStatus = "idle"
        /\ runInput' = d
        /\ runData' = d
        /\ runIdx' = 0
        /\ applied' = <<>>
        /\ runStatus' = "running"
        /\ UNCHANGED <<optionVars, pipeVars, steps, num_proc, order, ctorLen, runResult>>

\* Pipeline.run, one iteration of `for step in self.steps`.
RunStep ==
    /\ runStatus = "running"
    /\ runIdx < Len(steps)
    /\ LET step == steps[runIdx + 1]
       IN /\ runIdx' = runIdx + 1
          /\ IF IsInstance(step, "ProcessFilter")
             THEN LET out == DataFilter(runData, step)
                  IN /\ runData' = out
                     /\ applied' = Append(applied,
                            Applied(runIdx + 1, "filter", step, runData, num_proc, out))
                     /\ UNCHANGED <<runStatus, runResult>>
             ELSE IF IsInstance(step, "ProcessMap")
             THEN LET out == DataMap(runData, step)
                  IN /\ runData' = out
                     /\ applied' = Append(applied,
                            Applied(runIdx + 1, "map", step, runData, num_proc, out))
                     /\ UNCHANGED <<runStatus, runResult>>
             ELSE /\ runStatus' = "raised"
                  /\ runResult' = ValueError
                  /\ UNCHANGED <<runData, applied>>
    /\ UNCHANGED <<optionVars, pipeVars, steps, num_proc, order, ctorLen, runInput>>

\* Pipeline.run: the loop is over, return data.
RunReturn ==
    /\ runStatus = "running"
    /\ runIdx = Len(steps)
    /\ runStatus' = "returned"
    /\ runResult' = [data |-> runData]
    /\ UNCHANGED <<optionVars, pipeVars, steps, num_proc, order, ctorLen, runInput, runData,
                   runIdx, applied>>

NextPipeline ==
    \/ AddStep
    \/ RunStart
    \/ RunStep
    \/ RunReturn

SpecPipeline == InitPipeline /\ [][NextPipeline]_vars

\* ------------------------------------------------------------ properties of Option
RecvSome == last.recv.cls = "OpSome"
RecvNone == last.recv.cls = "OpNone"
Returned == last.out.kind = "return"
Raised == last.out.kind = "raise"

\* C1: Option.some(v).unwrap() returns v; Option.none().unwrap() fails with
\* UnwrapException carrying the fixed message that names the unwrap call, and
\* with no other kind of failure.
C1_Unwrap ==
    last.op = "unwrap" =>
        IF RecvSome
        THEN Returned /\ last.out.ret = IntV(last.recv.value)
        ELSE /\ Raised
             /\ last.out.exc.type = "UnwrapException"
             /\ last.out.exc.msg = "call 'Option.unwrap' on an 'Option<None>' object"

\* C5: expect(msg) on Some(v) returns v for every msg; on None it fails with
\* UnwrapException and str(e) is exactly msg.
C5_Expect ==
    last.op = "expect" =>
        IF RecvSome
        THEN Returned /\ last.out.ret = IntV(last.recv.value)
        ELSE /\ Raised
             /\ last.out.exc.type = "UnwrapException"
             /\ Str(last.out.exc) = last.args.msg

\* C6: Some(v).filter(pred) is Some(v) if pred(v) and None otherwise, and never
\* fails on its own; None.filter(pred) is None and pred is not invoked.
C6_Filter ==
    last.op = "filter" =>
        IF RecvSome
        THEN /\ Returned
             /\ "opt" \in DOMAIN last.out.ret
             /\ OptionEq(last.out.ret.opt,
                         IF ApplyPred(last.args.func, last.recv.value)
                         THEN last.recv ELSE OptionNone)
        ELSE /\ Returned
             /\ last.out.ret = OptV(OptionNone)
             /\ last.out.calls = <<>>

\* C7: on a None receiver, is_some_and, inspect, map, map_or, map_or_else,
\* filter and and_then never invoke the function meant for the Some branch, and
\* return None (map, filter, and_then, inspect), false (is_some_and) or the
\* default branch's value (map_or, map_or_else).
C7_AbsorptionByNone ==
    (/\ last.op \in {"is_some_and", "inspect", "map", "map_or", "map_or_else",
                     "filter", "and_then"}
     /\ RecvNone)
    => /\ Returned
       /\ \A i \in 1..Len(last.out.calls) : last.out.calls[i].fn # last.args.func
       /\ CASE last.op \in {"map", "filter", "and_then", "inspect"} ->
                   last.out.ret = OptV(OptionNone)
            [] last.op = "is_some_and" -> last.out.ret = BoolV(FALSE)
            [] last.op = "map_or" -> last.out.ret = IntV(last.args.default)
            [] last.op = "map_or_else" ->
                   last.out.ret = IntV(ApplyThunk(last.args.default))

C7_Witness ==
    /\ last.op = "map"
    /\ RecvNone
    /\ last.args.func = "add_one"
    /\ Returned

\* C8: unwrap_or_else on Some(v) returns v without invoking the thunk; on None
\* it returns thunk() and invokes the thunk exactly once.
C8_UnwrapOrElseLazy ==
    last.op = "unwrap_or_else" =>
        IF RecvSome
        THEN /\ Returned
             /\ last.out.ret = IntV(last.recv.value)
             /\ last.out.calls = <<>>
        ELSE /\ Returned
             /\ last.out.ret = IntV(ApplyThunk(last.args.func))
             /\ last.out.calls = <<Invoked(last.args.func, <<>>)>>

C8_Witness ==
    /\ last.op = "unwrap_or_else"
    /\ RecvSome
    /\ last.recv.value = 4
    /\ Returned

\* C9: Option.some(v).map(f).map(g) equals Option.some(g(f(v))) under Option
\* equality, and Option.some(v).map(identity) equals Option.some(v).
C9_FunctorLaws ==
    /\ (/\ root.cls = "OpSome"
        /\ Len(hist) = 2
        /\ hist[1].op = "map"
        /\ hist[2].op = "map")
       => OptionEq(o, OptionSome(ApplyFunc(hist[2].args.func,
                                           ApplyFunc(hist[1].args.func, root.value))))
    /\ (/\ last.op = "map"
        /\ RecvSome
        /\ last.args.func = "identity")
       => /\ Returned
          /\ "opt" \in DOMAIN last.out.ret
          /\ OptionEq(last.out.ret.opt, OptionSome(last.recv.value))

C9_Witness ==
    /\ root = OptionSome(3)
    /\ Len(hist) = 2
    /\ hist[1] = [op |-> "map", args |-> [func |-> "add_one"]]
    /\ hist[2] = [op |-> "map", args |-> [func |-> "double"]]
    /\ o = OptionSome(8)

\* C10: an Option is never changed by the calls made on it; or_else(fn) on
\* Some(v) returns an Option equal to Some(v) without invoking fn, and inspect
\* returns the receiver unchanged.
C10_Immutable ==
    /\ o = created
    /\ last.op # "none" => last.out.self = last.recv
    /\ (last.op = "or_else" /\ RecvSome)
       => /\ Returned
          /\ "opt" \in DOMAIN last.out.ret
          /\ OptionEq(last.out.ret.opt, last.recv)
          /\ last.out.calls = <<>>
    /\ last.op = "inspect" => (Returned /\ last.out.ret = OptV(last.recv))

\* ------------------------------------------------------------ properties of Mapper and Sequencer
\* C2: a call with a None input returns None and the variant's own map is not
\* invoked, for every variant.
C2_CallShortCircuits ==
    (status # "idle" /\ input = OptionNone)
    => /\ trace = <<>>
       /\ status = "returned"
       /\ result.ret = OptV(OptionNone)

\* The position in trace of the Sequencer's i-th member invocation is i + 1.
MemberCalls == SubSeq(trace, 2, Len(trace))

RECURSIVE Nested(_, _)
Nested(ps, d) ==
    IF ps = <<>> THEN Return("Sequencer", OptV(d), <<>>)
    ELSE LET inner == Nested(SubSeq(ps, 1, Len(ps) - 1), d)
         IN IF inner.kind = "raise" THEN inner
            ELSE LET out == PipeMap(ps[Len(ps)], inner.ret.opt)
                 IN IF out.kind = "raise"
                    THEN Raise("Sequencer", out.exc, <<>>)
                    ELSE Return("Sequencer", OptV(out.ret.opt), <<>>)

\* No result before the last pipe's is None.
NoIntermediateNone ==
    \A k \in 1..(Len(pipes) - 1) :
        LET r == Nested(SubSeq(pipes, 1, k), input)
        IN r.kind = "return" => r.ret.opt # OptionNone

IsFilterOrMap(step) == step.cls \in {"ProcessFilter", "ProcessMap"}

\* The method a step of that class is dispatched to.
MethodOf(step) == IF step.cls = "ProcessFilter" THEN "filter" ELSE "map"

\* What the method does to a dataset.
Expected(step, d) ==
    IF step.cls = "ProcessFilter"
    THEN LET Keep(x) == ApplyPred(step.fn, x) IN SelectSeq(d, Keep)
    ELSE [i \in 1..Len(d) |-> ApplyFunc(step.fn, d[i])]

\* The positions of the steps, in the order given, that are neither a
\* ProcessFilter nor a ProcessMap.
BadPositions == {i \in 1..Len(order) : ~IsFilterOrMap(order[i])}

\* C11: run applies the steps in list order, the steps added with add_step after
\* all earlier ones; a ProcessFilter goes to data.filter and a ProcessMap to
\* data.map, each fed the previous step's result; at the first step that is
\* neither, run raises ValueError, every earlier step applied and no later one.
C11_RunInOrder ==
    runStatus # "idle" =>
        /\ Len(applied) <= Len(order)
        /\ \A i \in 1..Len(applied) :
               /\ applied[i].pos = i
               /\ applied[i].step = order[i]
               /\ IsFilterOrMap(order[i])
               /\ applied[i].method = MethodOf(order[i])
               /\ applied[i].arg = (IF i = 1 THEN runInput ELSE applied[i - 1].out)
               /\ applied[i].out = Expected(order[i], applied[i].arg)
        /\ runData = (IF applied = <<>> THEN runInput ELSE applied[Len(applied)].out)
        /\ runStatus = "returned" =>
               /\ BadPositions = {}
               /\ Len(applied) = Len(order)
               /\ runResult = [data |-> runData]
        /\ runStatus = "raised" =>
               /\ runResult.type = "ValueError"
               /\ BadPositions # {}
               /\ \A b \in BadPositions : Len(applied) + 1 <= b
               /\ Len(applied) + 1 \in BadPositions
        /\ (runStatus = "running" /\ runIdx = Len(steps)) => BadPositions = {}

C11_Witness ==
    /\ runStatus = "raised"
    /\ ctorLen = 1
    /\ order = <<[cls |-> "ProcessFilter", fn |-> "gt_one"],
                 [cls |-> "ProcessMap", fn |-> "double"],
                 [cls |-> "ProcessReduce", fn |-> "sum"]>>
    /\ runInput = <<0, 3, 4>>
    /\ runData = <<6, 8>>
    /\ Len(applied) = 2

====
